---- MODULE Spec2Model ----
(***************************************************************************)
(* Model of the data-fetching demo: the users/posts schema with its        *)
(* constraints, the seed script, the post list and post detail pages of    *)
(* the SSG, ISR and SSR routes, and the POST /api/revalidate route handler.*)
(***************************************************************************)
EXTENDS Integers, Sequences, FiniteSets, TLC

\* ------------------------------------------------------------------ bounds
\* Number of SQL statements issued by clients other than the seed script.
MaxOps == 2
\* Largest value of the database clock (now()).
MaxTime == 1
\* Number of POST /api/revalidate requests handled.
MaxRequests == 3
\* Number of client statements while pages are rendered.
MaxPageOps == 4
\* Number of client statements while the deployed application serves pages.
MaxCacheOps == 2
\* Number of client statements before, during and between builds.
MaxBuildOps == 3
\* Number of client statements while pages are revalidated on demand.
MaxOnDemandOps == 3
\* Number of POST /api/revalidate requests while pages are served.
MaxCacheRequests == 1
\* Number of client statements while everything that reads is run.
MaxReadOps == 1
\* Largest value of the clock, in seconds, while pages are served.
MaxClock == 61

\* ------------------------------------------------------------- input sets
\* The two processes that may run the seed script (a first and a second run).
SeedProcs == {1, 2}

\* Emails a client may insert: one that the seed also uses, one it does not.
ClientEmails == {"john@example.com", "zoe@example.com"}

\* Values a client may write into the integer column posts.published.
PublishedInputs == {0, 1, 2}

\* Seconds that may pass between two events while pages are served.
Delays == {59, 61}

\* An optional value is <<>> when omitted and <<v>> when given.
Omitted == <<>>
Given(v) == <<v>>

\* ------------------------------------------------------------------ state
VARIABLES
  requests,       \* bodies of the POST /api/revalidate requests received, in order
  users,          \* rows of table users: [id, email]
  posts,          \* rows of table posts: [id, userId, published, createdAt]
  now,            \* database clock, the value of now()
  nextUserId,     \* next value drawn by gen_random_uuid() for users.id
  nextPostId,     \* next value drawn by gen_random_uuid() for posts.id
  opCount,        \* number of client statements executed
  lastOp,         \* the last client statement and its result
  pc,             \* per seed process: the statement main() executes next
  insertedUsers,  \* per seed process: ids returned by the users insert
  interfered,     \* per seed process: someone else wrote to the tables since the run began
  rendered,       \* outcome of the page function last run, until the tables change or
                  \* its response is sent; set again when its rows have arrived
  calls,          \* invocations of revalidatePath, in order
  responses,      \* responses of POST /api/revalidate, in order
  cache,          \* the framework's full route cache: prerendered pages
  served,         \* the page response sent to the last page request, if any
  building,       \* the functions a build under way has still to call or awaits:
                  \* [page, param, kind, phase, ids, list]
  inflight        \* the render whose page function awaits its rows:
                  \* [kind, result, overtaken]

vars == <<users, posts, now, nextUserId, nextPostId, opCount, lastOp,
          pc, insertedUsers, interfered, rendered, requests, calls, responses,
          cache, served, building, inflight>>

\* What the framework keeps besides the application's own state.
fwVars == <<cache, served, building, inflight>>

\* ----------------------------------------------------------------- schema
UserIds(us) == {u.id : u \in us}
UserEmails(us) == {u.email : u \in us}

\* posts.published: integer("published").default(0).notNull()
PublishedDefault == 0

\* Variant: the posts table has no foreign key on user_id.
FkViolation_Never(us, userId) == FALSE

\* posts_user_id_users_id_fk: FOREIGN KEY (user_id) REFERENCES users(id),
\* checked when a posts row is inserted.
FkViolation(us, userId) == userId \notin UserIds(us)

\* Variant: the email column is not declared unique.
UniqueViolation_Never(us, email) == FALSE

\* users_email_unique: UNIQUE(email), checked when a users row is inserted.
UniqueViolation(us, email) == email \in UserEmails(us)

\* Variant: deleting a users row does not look at the posts table.
Referenced_Never(ps, uid) == FALSE

\* ON DELETE no action, checked when a users row is deleted: a row still
\* referenced by a post cannot go.
Referenced(ps, uid) == \E p \in ps : p.userId = uid

\* The id segment of a detail route is a string: the text of a uuid or not.
UuidString(n) == [syntax |-> "uuid", value |-> n]
NotAUuid == [syntax |-> "text", value |-> 0]
NoParam == [syntax |-> "none", value |-> 0]

NoRender == [page |-> "none", status |-> "none", error |-> "none",
             param |-> NoParam, list |-> <<>>]
NoOp == [op |-> "none", id |-> 0, email |-> "", result |-> "none"]
NoServed == [page |-> "none", param |-> NoParam, status |-> "none",
             list |-> <<>>, source |-> "none"]
NoRequest == [kind |-> "none", result |-> NoRender, overtaken |-> FALSE]

Running(s) == pc[s] \in {"delPosts", "delUsers", "insUsers", "insPosts", "close"}
Started(s) == pc[s] # "idle"

\* Every seed run that has started has seen a write that is not its own.
Interfere == [s \in SeedProcs |-> IF Started(s) THEN TRUE ELSE interfered[s]]
InterfereOthers(me) ==
  [s \in SeedProcs |-> IF s # me /\ Started(s) THEN TRUE ELSE interfered[s]]

Init ==
  /\ users = {}
  /\ posts = {}
  /\ now = 0
  /\ nextUserId = 1
  /\ nextPostId = 1
  /\ opCount = 0
  /\ lastOp = NoOp
  /\ pc = [s \in SeedProcs |-> "idle"]
  /\ insertedUsers = [s \in SeedProcs |-> <<>>]
  /\ interfered = [s \in SeedProcs |-> FALSE]
  /\ rendered = NoRender
  /\ requests = <<>>
  /\ calls = <<>>
  /\ responses = <<>>
  /\ cache = {}
  /\ served = NoServed
  /\ building = {}
  /\ inflight = NoRequest

\* now() advances.
Tick ==
  /\ now < MaxTime
  /\ now' = now + 1
  /\ UNCHANGED <<users, posts, nextUserId, nextPostId, opCount, lastOp,
                 pc, insertedUsers, interfered, rendered, requests, calls, responses>>

\* ------------------------------------------------------ client statements
\* INSERT INTO users (email, ...) VALUES (...)
InsertUser(email) ==
  /\ opCount' = opCount + 1
  /\ IF UniqueViolation(users, email)
       THEN /\ lastOp' = [op |-> "insertUser", id |-> 0, email |-> email,
                          result |-> "unique_violation"]
            /\ UNCHANGED <<users, nextUserId, interfered, rendered>>
       ELSE /\ users' = users \cup {[id |-> nextUserId, email |-> email]}
            /\ nextUserId' = nextUserId + 1
            /\ lastOp' = [op |-> "insertUser", id |-> nextUserId, email |-> email,
                          result |-> "ok"]
            /\ interfered' = Interfere
            /\ rendered' = NoRender
  /\ UNCHANGED <<posts, now, nextPostId, pc, insertedUsers, requests, calls, responses>>

\* INSERT INTO posts (user_id, published, ...) VALUES (...)
InsertPost(userId, published) ==
  /\ opCount' = opCount + 1
  /\ IF FkViolation(users, userId)
       THEN /\ lastOp' = [op |-> "insertPost", id |-> userId, email |-> "",
                          result |-> "fk_violation"]
            /\ UNCHANGED <<posts, nextPostId, interfered, rendered>>
       ELSE /\ posts' = posts \cup
                 {[id |-> nextPostId, userId |-> userId,
                   published |-> IF published = Omitted THEN PublishedDefault
                                                         ELSE published[1],
                   createdAt |-> now]}
            /\ nextPostId' = nextPostId + 1
            /\ lastOp' = [op |-> "insertPost", id |-> userId, email |-> "",
                          result |-> "ok"]
            /\ interfered' = Interfere
            /\ rendered' = NoRender
  /\ UNCHANGED <<users, now, nextUserId, pc, insertedUsers, requests, calls, responses>>

\* Variant: the foreign key is declared ON DELETE cascade.
DeleteUser_Cascade(uid) ==
  /\ opCount' = opCount + 1
  /\ users' = {u \in users : u.id # uid}
  /\ posts' = {p \in posts : p.userId # uid}
  /\ lastOp' = [op |-> "deleteUser", id |-> uid, email |-> "", result |-> "ok"]
  /\ interfered' = IF users' # users THEN Interfere ELSE interfered
  /\ rendered' = IF users' # users THEN NoRender ELSE rendered
  /\ UNCHANGED <<now, nextUserId, nextPostId, pc, insertedUsers,
                 requests, calls, responses>>

\* DELETE FROM users WHERE id = uid
DeleteUser(uid) ==
  /\ opCount' = opCount + 1
  /\ IF Referenced(posts, uid)
       THEN /\ lastOp' = [op |-> "deleteUser", id |-> uid, email |-> "",
                          result |-> "fk_violation"]
            /\ UNCHANGED <<users, interfered, rendered>>
       ELSE /\ users' = {u \in users : u.id # uid}
            /\ lastOp' = [op |-> "deleteUser", id |-> uid, email |-> "",
                          result |-> "ok"]
            /\ interfered' = IF users' # users THEN Interfere ELSE interfered
            /\ rendered' = IF users' # users THEN NoRender ELSE rendered
  /\ UNCHANGED <<posts, now, nextUserId, nextPostId, pc, insertedUsers,
                 requests, calls, responses>>

\* DELETE FROM posts WHERE id = pid
DeletePost(pid) ==
  /\ opCount' = opCount + 1
  /\ posts' = {p \in posts : p.id # pid}
  /\ lastOp' = [op |-> "deletePost", id |-> pid, email |-> "", result |-> "ok"]
  /\ interfered' = IF posts' # posts THEN Interfere ELSE interfered
  /\ rendered' = IF posts' # posts THEN NoRender ELSE rendered
  /\ UNCHANGED <<users, now, nextUserId, nextPostId, pc, insertedUsers,
                 requests, calls, responses>>

\* ------------------------------------------------------------ seed script
\* userData: the five sample users, by email.
userData == <<"john@example.com", "jane@example.com", "bob@example.com",
              "alice@example.com", "charlie@example.com">>

\* postData: for each sample post the index of its owner in insertedUsers
\* and its published flag.
postData == << [owner |-> 1, published |-> 1], [owner |-> 1, published |-> 1],
               [owner |-> 2, published |-> 1], [owner |-> 2, published |-> 0],
               [owner |-> 3, published |-> 1], [owner |-> 3, published |-> 0],
               [owner |-> 4, published |-> 1], [owner |-> 4, published |-> 0],
               [owner |-> 5, published |-> 1], [owner |-> 5, published |-> 0] >>

\* Variant: the rejection is swallowed inside main(), which goes on to close
\* the pool and return normally.
SeedFail_Swallow(s) ==
  /\ pc' = [pc EXCEPT ![s] = "close"]
  /\ UNCHANGED <<users, posts, nextUserId, nextPostId, insertedUsers,
                 interfered, rendered>>

\* A statement of the seed fails: main() rejects, the catch handler logs the
\* error and calls process.exit(1).
SeedFail(s) ==
  /\ pc' = [pc EXCEPT ![s] = "failed"]
  /\ UNCHANGED <<users, posts, nextUserId, nextPostId, insertedUsers,
                 interfered, rendered>>

\* `npm run seed`: the process starts and main() is called.
SeedStart(s) ==
  /\ pc[s] = "idle"
  /\ pc' = [pc EXCEPT ![s] = "delPosts"]
  /\ UNCHANGED <<users, posts, now, nextUserId, nextPostId, opCount, lastOp,
                 insertedUsers, interfered, rendered, requests, calls, responses>>

\* Variant: the users are cleared first; the delete of the posts is left
\* for later and main() goes straight on to the users.
SeedDeletePosts_Later(s, dbError) ==
  /\ pc[s] = "delPosts"
  /\ IF dbError
       THEN SeedFail(s)
       ELSE /\ pc' = [pc EXCEPT ![s] = "delUsers"]
            /\ UNCHANGED <<users, posts, nextUserId, nextPostId, insertedUsers,
                           interfered, rendered>>
  /\ UNCHANGED <<now, opCount, lastOp, requests, calls, responses>>

\* await db.delete(schema.posts)
SeedDeletePosts(s, dbError) ==
  /\ pc[s] = "delPosts"
  /\ IF dbError
       THEN SeedFail(s)
       ELSE /\ posts' = {}
            /\ pc' = [pc EXCEPT ![s] = "delUsers"]
            /\ interfered' = IF posts # {} THEN InterfereOthers(s) ELSE interfered
            /\ rendered' = IF posts # {} THEN NoRender ELSE rendered
            /\ UNCHANGED <<users, nextUserId, nextPostId, insertedUsers>>
  /\ UNCHANGED <<now, opCount, lastOp, requests, calls, responses>>

\* Variant: the seed does not clear the users table.
SeedDeleteUsers_Skip(s, dbError) ==
  /\ pc[s] = "delUsers"
  /\ IF dbError
       THEN SeedFail(s)
       ELSE /\ pc' = [pc EXCEPT ![s] = "insUsers"]
            /\ UNCHANGED <<users, posts, nextUserId, nextPostId, insertedUsers,
                           interfered, rendered>>
  /\ UNCHANGED <<now, opCount, lastOp, requests, calls, responses>>

\* await db.delete(schema.users)
SeedDeleteUsers(s, dbError) ==
  /\ pc[s] = "delUsers"
  /\ IF dbError \/ \E u \in users : Referenced(posts, u.id)
       THEN SeedFail(s)
       ELSE /\ users' = {}
            /\ pc' = [pc EXCEPT ![s] = "insUsers"]
            /\ interfered' = IF users # {} THEN InterfereOthers(s) ELSE interfered
            /\ rendered' = IF users # {} THEN NoRender ELSE rendered
            /\ UNCHANGED <<posts, nextUserId, nextPostId, insertedUsers>>
  /\ UNCHANGED <<now, opCount, lastOp, requests, calls, responses>>

\* const insertedUsers = await db.insert(schema.users).values(userData).returning()
SeedInsertUsers(s, dbError) ==
  /\ pc[s] = "insUsers"
  /\ IF dbError \/ \E i \in 1..Len(userData) : UniqueViolation(users, userData[i])
       THEN SeedFail(s)
       ELSE /\ users' = users \cup {[id |-> nextUserId + i - 1, email |-> userData[i]] :
                                      i \in 1..Len(userData)}
            /\ nextUserId' = nextUserId + Len(userData)
            /\ insertedUsers' = [insertedUsers EXCEPT
                                   ![s] = [i \in 1..Len(userData) |-> nextUserId + i - 1]]
            /\ pc' = [pc EXCEPT ![s] = "insPosts"]
            /\ interfered' = InterfereOthers(s)
            /\ rendered' = NoRender
            /\ UNCHANGED <<posts, nextPostId>>
  /\ UNCHANGED <<now, opCount, lastOp, requests, calls, responses>>

\* Variant: the posts are inserted by two statements, the first five rows
\* and then the other five.
SeedInsertPosts_TwoBatches(s, dbError) ==
  LET mine == {p \in posts : \E i \in 1..Len(insertedUsers[s]) :
                               p.userId = insertedUsers[s][i]}
      rows == IF mine = {} THEN 1..5 ELSE 6..Len(postData)
  IN
  /\ pc[s] = "insPosts"
  /\ IF dbError \/ \E i \in 1..Len(postData) :
                     FkViolation(users, insertedUsers[s][postData[i].owner])
       THEN SeedFail(s)
       ELSE /\ posts' = posts \cup
                 {[id |-> nextPostId + i - 1,
                   userId |-> insertedUsers[s][postData[i].owner],
                   published |-> postData[i].published,
                   createdAt |-> now] : i \in rows}
            /\ nextPostId' = nextPostId + 5
            /\ pc' = [pc EXCEPT ![s] = IF mine = {} THEN "insPosts" ELSE "close"]
            /\ interfered' = InterfereOthers(s)
            /\ rendered' = NoRender
            /\ UNCHANGED <<users, nextUserId, insertedUsers>>
  /\ UNCHANGED <<now, opCount, lastOp, requests, calls, responses>>

\* Variant: the statements of a run share a transaction, so a failing insert
\* of the posts takes the users the run inserted with it.
SeedInsertPosts_Atomic(s, dbError) ==
  /\ pc[s] = "insPosts"
  /\ IF dbError \/ \E i \in 1..Len(postData) :
                     FkViolation(users, insertedUsers[s][postData[i].owner])
       THEN /\ pc' = [pc EXCEPT ![s] = "failed"]
            /\ users' = {u \in users : \A i \in 1..Len(insertedUsers[s]) :
                                         u.id # insertedUsers[s][i]}
            /\ UNCHANGED <<posts, nextUserId, nextPostId, insertedUsers,
                           interfered, rendered>>
       ELSE /\ posts' = posts \cup
                 {[id |-> nextPostId + i - 1,
                   userId |-> insertedUsers[s][postData[i].owner],
                   published |-> postData[i].published,
                   createdAt |-> now] : i \in 1..Len(postData)}
            /\ nextPostId' = nextPostId + Len(postData)
            /\ pc' = [pc EXCEPT ![s] = "close"]
            /\ interfered' = InterfereOthers(s)
            /\ rendered' = NoRender
            /\ UNCHANGED <<users, nextUserId, insertedUsers>>
  /\ UNCHANGED <<now, opCount, lastOp, requests, calls, responses>>

\* const insertedPosts = await db.insert(schema.posts).values(postData).returning()
SeedInsertPosts(s, dbError) ==
  /\ pc[s] = "insPosts"
  /\ IF dbError \/ \E i \in 1..Len(postData) :
                     FkViolation(users, insertedUsers[s][postData[i].owner])
       THEN SeedFail(s)
       ELSE /\ posts' = posts \cup
                 {[id |-> nextPostId + i - 1,
                   userId |-> insertedUsers[s][postData[i].owner],
                   published |-> postData[i].published,
                   createdAt |-> now] : i \in 1..Len(postData)}
            /\ nextPostId' = nextPostId + Len(postData)
            /\ pc' = [pc EXCEPT ![s] = "close"]
            /\ interfered' = InterfereOthers(s)
            /\ rendered' = NoRender
            /\ UNCHANGED <<users, nextUserId, insertedUsers>>
  /\ UNCHANGED <<now, opCount, lastOp, requests, calls, responses>>

\* await pool.end(): main() resolves and the process ends normally.
SeedClose(s) ==
  /\ pc[s] = "close"
  /\ pc' = [pc EXCEPT ![s] = "done"]
  /\ UNCHANGED <<users, posts, now, nextUserId, nextPostId, opCount, lastOp,
                 insertedUsers, interfered, rendered, requests, calls, responses>>

SeedStep(s) ==
  \/ SeedStart(s)
  \/ \E dbError \in BOOLEAN : SeedDeletePosts(s, dbError)
  \/ \E dbError \in BOOLEAN : SeedDeleteUsers(s, dbError)
  \/ \E dbError \in BOOLEAN : SeedInsertUsers(s, dbError)
  \/ \E dbError \in BOOLEAN : SeedInsertPosts(s, dbError)
  \/ SeedClose(s)

\* A statement of a seed run while the database is up: only a constraint
\* can make it fail.
SeedStepUp(s) ==
  \/ SeedStart(s)
  \/ SeedDeletePosts(s, FALSE)
  \/ SeedDeleteUsers(s, FALSE)
  \/ SeedInsertUsers(s, FALSE)
  \/ SeedInsertPosts(s, FALSE)
  \/ SeedClose(s)

\* ------------------------------------------------------------ ORM queries
\* select({id, title, content, createdAt, userId}): the columns a page reads.
SelectColumns(p) == [id |-> p.id, createdAt |-> p.createdAt, userId |-> p.userId]

\* Variant: the filter keeps every post whose flag is not 0.
WherePublished_Truthy(ps) == {p \in ps : p.published # 0}

\* .where(eq(posts.published, 1))
WherePublished(ps) == {p \in ps : p.published = 1}

\* .where(eq(posts.id, id)): the rows whose uuid is the one the text denotes.
WhereId(ps, param) == {p \in ps : p.id = param.value}

\* ORDER BY "createdAt": every arrangement of the rows with createdAt
\* ascending; SQL leaves the order of rows with equal keys open.
RECURSIVE OrderByCreatedAt(_)
OrderByCreatedAt(rows) ==
  IF rows = {} THEN {<<>>}
  ELSE UNION {{<<r>> \o t : t \in OrderByCreatedAt(rows \ {r})} :
              r \in {m \in rows : \A o \in rows : m.createdAt <= o.createdAt}}

\* .limit(1): at most one of the rows.
Limit1(rows) == IF rows = {} THEN {<<>>} ELSE {<<r>> : r \in rows}

MapColumns(list) == [i \in 1..Len(list) |-> SelectColumns(list[i])]

\* -------------------------------------------------------------- list pages
\* The value of postList, one per possible answer of the database.
SSRPostList(ps) == {MapColumns(l) : l \in OrderByCreatedAt(WherePublished(ps))}
SSGPostList(ps) == {MapColumns(l) : l \in OrderByCreatedAt(WherePublished(ps))}

\* Variant: the ISR list leaves out the where clause.
ISRPostList_Unfiltered(ps) == {MapColumns(l) : l \in OrderByCreatedAt(ps)}

ISRPostList(ps) == {MapColumns(l) : l \in OrderByCreatedAt(WherePublished(ps))}

\* Variant: the page catches a failed query and renders an empty list.
ListPage_Catch(page, lists, dbError) ==
  /\ IF dbError
       THEN rendered' = [page |-> page, status |-> "ok",
                         error |-> "db_unavailable", param |-> NoParam, list |-> <<>>]
       ELSE \E l \in lists :
              rendered' = [page |-> page, status |-> "ok", error |-> "none",
                           param |-> NoParam, list |-> l]
  /\ UNCHANGED <<users, posts, now, nextUserId, nextPostId, opCount, lastOp,
                 pc, insertedUsers, interfered, requests, calls, responses>>

\* A list page: one query, not caught when it fails, then the markup.
ListPage(page, lists, dbError) ==
  /\ IF dbError
       THEN rendered' = [page |-> page, status |-> "error",
                         error |-> "db_unavailable", param |-> NoParam, list |-> <<>>]
       ELSE \E l \in lists :
              rendered' = [page |-> page, status |-> "ok", error |-> "none",
                           param |-> NoParam, list |-> l]
  /\ UNCHANGED <<users, posts, now, nextUserId, nextPostId, opCount, lastOp,
                 pc, insertedUsers, interfered, requests, calls, responses>>

SSRPostsPage(dbError) == ListPage("/ssr/posts", SSRPostList(posts), dbError)
SSGPostsPage(dbError) == ListPage("/ssg/posts", SSGPostList(posts), dbError)
ISRPostsPage(dbError) == ListPage("/isr/posts", ISRPostList(posts), dbError)

\* ------------------------------------------------------------ detail pages
\* The value of the query `const [post] = await db.select()...limit(1)`.
SSRPost(ps, param) == {MapColumns(l) : l \in Limit1(WhereId(ps, param))}
SSGPost(ps, param) == {MapColumns(l) : l \in Limit1(WhereId(ps, param))}
ISRPost(ps, param) == {MapColumns(l) : l \in Limit1(WhereId(ps, param))}

\* Variant: a detail page that finds its post marks it as published.
DetailPage_Publishes(page, param, results, dbError) ==
  /\ IF dbError
       THEN /\ rendered' = [page |-> page, status |-> "error",
                            error |-> "db_unavailable", param |-> param, list |-> <<>>]
            /\ UNCHANGED posts
       ELSE IF param.syntax # "uuid"
       THEN /\ rendered' = [page |-> page, status |-> "error",
                            error |-> "invalid_uuid", param |-> param, list |-> <<>>]
            /\ UNCHANGED posts
       ELSE \E l \in results :
              /\ rendered' = [page |-> page,
                              status |-> IF Len(l) = 0 THEN "notFound" ELSE "ok",
                              error |-> "none", param |-> param, list |-> l]
              /\ posts' = {IF Len(l) > 0 /\ p.id = l[1].id
                             THEN [p EXCEPT !.published = 1] ELSE p : p \in posts}
  /\ UNCHANGED <<users, now, nextUserId, nextPostId, opCount, lastOp,
                 pc, insertedUsers, interfered, requests, calls, responses>>

\* A detail page: the query raises when the database is down or when the
\* text compared with the uuid column is not a uuid; `if (!post) notFound()`.
DetailPage(page, param, results, dbError) ==
  /\ IF dbError
       THEN rendered' = [page |-> page, status |-> "error",
                         error |-> "db_unavailable", param |-> param, list |-> <<>>]
       ELSE IF param.syntax # "uuid"
       THEN rendered' = [page |-> page, status |-> "error",
                         error |-> "invalid_uuid", param |-> param, list |-> <<>>]
       ELSE \E l \in results :
              rendered' = [page |-> page,
                           status |-> IF Len(l) = 0 THEN "notFound" ELSE "ok",
                           error |-> "none", param |-> param, list |-> l]
  /\ UNCHANGED <<users, posts, now, nextUserId, nextPostId, opCount, lastOp,
                 pc, insertedUsers, interfered, requests, calls, responses>>

SSRPostPage(param, dbError) ==
  DetailPage("/ssr/posts/[id]", param, SSRPost(posts, param), dbError)
SSGPostPage(param, dbError) ==
  DetailPage("/ssg/posts/[id]", param, SSGPost(posts, param), dbError)
ISRPostPage(param, dbError) ==
  DetailPage("/isr/posts/[id]", param, ISRPost(posts, param), dbError)

\* A uuid that gen_random_uuid() gives to no row, now or later.
UnknownId == 0

\* The id segments tried: every post's uuid, a uuid of no post, a non-uuid.
Params == {UuidString(n) : n \in {p.id : p \in posts} \cup {UnknownId}} \cup {NotAUuid}

\* The framework sends the rendered page (or its error page) to the client.
Respond ==
  /\ rendered # NoRender
  /\ rendered' = NoRender
  /\ UNCHANGED <<users, posts, now, nextUserId, nextPostId, opCount, lastOp,
                 pc, insertedUsers, interfered, requests, calls, responses>>

PageStep ==
  \/ \E dbError \in BOOLEAN : SSRPostsPage(dbError)
  \/ \E dbError \in BOOLEAN : SSGPostsPage(dbError)
  \/ \E dbError \in BOOLEAN : ISRPostsPage(dbError)
  \/ \E param \in Params, dbError \in BOOLEAN : SSRPostPage(param, dbError)
  \/ \E param \in Params, dbError \in BOOLEAN : SSGPostPage(param, dbError)
  \/ \E param \in Params, dbError \in BOOLEAN : ISRPostPage(param, dbError)

\* ------------------------------------------------- POST /api/revalidate
\* Request bodies: text that is not JSON, the JSON value null, and JSON
\* objects with an optional path and an optional secret.
\* "/isr/posts/1" is the path of the page of the post whose uuid is written 1.
PathInputs == {"", "/isr/posts", "/ssg/posts", "/isr/posts/1"}
SecretInputs == {"s3cret"}
Bodies ==
  {[kind |-> "malformed", path |-> Omitted, secret |-> Omitted],
   [kind |-> "null", path |-> Omitted, secret |-> Omitted]} \cup
  [kind : {"object"},
   path : {Omitted} \cup {Given(v) : v \in PathInputs},
   secret : {Omitted} \cup {Given(v) : v \in SecretInputs}]

\* Variant: the secret check is switched on, with "s3cret" as the value of
\* REVALIDATE_SECRET.
InvalidSecret_Checked(secret) == secret # Given("s3cret")

\* The check `secret !== process.env.REVALIDATE_SECRET` is commented out:
\* no secret, given or not, is turned away.
InvalidSecret(secret) == FALSE

\* Variant: the `if (!path)` check is left out.
Falsy_Unchecked(path) == FALSE

\* `!path`: the field is missing (undefined) or the empty string.
Falsy(path) == path = Omitted \/ path[1] = ""

\* A response of the handler: NextResponse.json(body, {status}).
Response(req, status, revalidated, path, error) ==
  [req |-> req, status |-> status, revalidated |-> revalidated,
   path |-> path, error |-> error]

\* Variant: a path already revalidated is not revalidated again.
Revalidate_Dedup(cs, req, path, throws) ==
  IF \E k \in 1..Len(cs) : cs[k].path = path
    THEN cs
    ELSE Append(cs, [req |-> req, path |-> path, threw |-> throws])

\* revalidatePath(path): one more invocation of the primitive.
Revalidate(cs, req, path, throws) ==
  Append(cs, [req |-> req, path |-> path, threw |-> throws])

\* return NextResponse.json(...): the handler answers the request.
Reply(resps, response) == Append(resps, response)

\* Variant: no catch block, the exception leaves the handler unanswered.
Caught_Escapes(resps, req, error) == resps

\* catch (error): the handler answers 500 with String(error).
Caught(resps, req, error) == Append(resps, Response(req, 500, FALSE, Omitted, error))

\* The text JavaScript passes on for the destructured path.
PathText(path) == IF path = Omitted THEN "undefined" ELSE path[1]

\* The route handler, from the request to its response.  `throws` tells
\* whether revalidatePath raises.
POST(body, throws) ==
  LET req == Len(requests) + 1 IN
  /\ requests' = Append(requests, body)
  /\ IF body.kind = "malformed"
       THEN \* await request.json() rejects
            /\ responses' = Caught(responses, req, "SyntaxError")
            /\ UNCHANGED calls
       ELSE IF body.kind = "null"
       THEN \* const { path, secret } = body  on null
            /\ responses' = Caught(responses, req, "TypeError")
            /\ UNCHANGED calls
       ELSE IF InvalidSecret(body.secret)
       THEN /\ responses' = Reply(responses, Response(req, 401, FALSE, Omitted, ""))
            /\ UNCHANGED calls
       ELSE IF Falsy(body.path)
       THEN /\ responses' = Reply(responses, Response(req, 400, FALSE, Omitted, ""))
            /\ UNCHANGED calls
       ELSE /\ calls' = Revalidate(calls, req, PathText(body.path), throws)
            /\ responses' =
                 IF throws THEN Caught(responses, req, "Error")
                           ELSE Reply(responses, Response(req, 200, TRUE, body.path, ""))
  /\ UNCHANGED <<users, posts, now, nextUserId, nextPostId, opCount, lastOp,
                 pc, insertedUsers, interfered, rendered>>

\* A statement issued by a client other than the seed script.  Ids that
\* match no row are represented by the next unused id.
ClientStep ==
  \/ \E e \in ClientEmails : InsertUser(e)
  \/ \E uid \in UserIds(users) \cup {nextUserId},
        pub \in {Omitted} \cup {Given(v) : v \in PublishedInputs} :
       InsertPost(uid, pub)
  \/ \E uid \in UserIds(users) \cup {nextUserId} : DeleteUser(uid)
  \/ \E pid \in {p.id : p \in posts} \cup {nextPostId} : DeletePost(pid)

\* ------------------------------------------------- route segment config
\* export const dynamic = ... / export const revalidate = ... of each page.
\* Variant: the SSR list page asks for static rendering.
SSRPostsDynamic_Static == "force-static"

SSRPostsDynamic == "force-dynamic"
SSRPostDynamic == "force-dynamic"
SSGPostsDynamic == "force-static"
SSGPostDynamic == "force-static"

\* Variant: the ISR list page revalidates once a day.
ISRPostsRevalidate_Daily == 24 * 60 * 60

ISRPostsRevalidate == 60
ISRPostRevalidate == 60

\* A page that exports no `dynamic` has "auto"; one that exports no
\* `revalidate` is never revalidated by time.  staticParams tells whether
\* the page exports generateStaticParams.
RouteConfig(page) ==
  CASE page = "/ssr/posts" ->
         [dynamic |-> SSRPostsDynamic, revalidate |-> Omitted, staticParams |-> FALSE]
    [] page = "/ssr/posts/[id]" ->
         [dynamic |-> SSRPostDynamic, revalidate |-> Omitted, staticParams |-> FALSE]
    [] page = "/ssg/posts" ->
         [dynamic |-> SSGPostsDynamic, revalidate |-> Omitted, staticParams |-> FALSE]
    [] page = "/ssg/posts/[id]" ->
         [dynamic |-> SSGPostDynamic, revalidate |-> Omitted, staticParams |-> TRUE]
    [] page = "/isr/posts" ->
         [dynamic |-> "auto", revalidate |-> Given(ISRPostsRevalidate),
          staticParams |-> FALSE]
    [] OTHER ->
         [dynamic |-> "auto", revalidate |-> Given(ISRPostRevalidate),
          staticParams |-> TRUE]

ListRoutes == {"/ssr/posts", "/ssg/posts", "/isr/posts"}
DetailRoutes == {"/ssr/posts/[id]", "/ssg/posts/[id]", "/isr/posts/[id]"}

\* Variant: generateStaticParams of the SSG route selects every post.
SSGStaticParams_All(ps) == {UuidString(p.id) : p \in ps}

\* generateStaticParams(): the ids of the published posts.
SSGStaticParams(ps) == {UuidString(p.id) : p \in WherePublished(ps)}
ISRStaticParams(ps) == {UuidString(p.id) : p \in WherePublished(ps)}

\* ------------------------------------------- the framework serving pages
\* Next.js itself is not part of the repository.  What it does with the
\* pages (the build, the pages it keeps, what a request is answered with,
\* revalidatePath) is modelled here after its documented behaviour for the
\* config each page exports; the functions it calls are the repository's.
\* The page function of a route is run.
RenderPage(page, param, dbError) ==
  \/ page = "/ssr/posts" /\ SSRPostsPage(dbError)
  \/ page = "/ssg/posts" /\ SSGPostsPage(dbError)
  \/ page = "/isr/posts" /\ ISRPostsPage(dbError)
  \/ page = "/ssr/posts/[id]" /\ SSRPostPage(param, dbError)
  \/ page = "/ssg/posts/[id]" /\ SSGPostPage(param, dbError)
  \/ page = "/isr/posts/[id]" /\ ISRPostPage(param, dbError)

\* A prerendered page kept by the framework.  `tagged` is set by
\* revalidatePath; `regenerating` while a background render is under way.
\* `overtaken` is a record of history that no step reads: while the page
\* function awaited the rows behind this page, POST /api/revalidate
\* answered 200 for its path and the table no longer held those rows.
Entry(page, param, status, list, t, o) ==
  [page |-> page, param |-> param, status |-> status, list |-> list,
   generatedAt |-> t, tagged |-> FALSE, regenerating |-> FALSE, overtaken |-> o]

\* A cached page is stale once more than `revalidate` seconds have passed.
Stale(e, cfg, t) ==
  cfg.revalidate # Omitted /\ t - e.generatedAt > cfg.revalidate[1]

\* The pages `npm run build` prerenders: those that are not force-dynamic;
\* of the detail routes, those that export generateStaticParams.
StaticListRoutes == {pg \in ListRoutes : RouteConfig(pg).dynamic # "force-dynamic"}
StaticDetailRoutes == {pg \in DetailRoutes : /\ RouteConfig(pg).dynamic # "force-dynamic"
                                             /\ RouteConfig(pg).staticParams}

\* The query of each function the build awaits, on the rows it finds.
StaticParams(pg, ps) ==
  IF pg = "/ssg/posts/[id]" THEN SSGStaticParams(ps) ELSE ISRStaticParams(ps)
ListQuery(pg, ps) ==
  IF pg = "/ssg/posts" THEN SSGPostList(ps)
  ELSE IF pg = "/isr/posts" THEN ISRPostList(ps)
  ELSE SSRPostList(ps)
DetailQuery(pg, ps, param) ==
  IF pg = "/ssg/posts/[id]" THEN SSGPost(ps, param) ELSE ISRPost(ps, param)

\* A function the build is to call: generateStaticParams of a detail route
\* (kind "params") or a page function (kind "render").  phase tells how far
\* the call is: "todo" before its SELECT is issued, "rows" while it awaits
\* the rows the SELECT has read, "failed" while it awaits a SELECT that the
\* database has rejected.  ids and list hold the rows read.
BuildTask(page, param, kind) ==
  [page |-> page, param |-> param, kind |-> kind, phase |-> "todo",
   ids |-> {}, list |-> <<>>]

\* The application is deployed: a build has ended and left its pages.
Deployed == building = {} /\ cache # {}

\* `npm run build` starts, for the first time or again: the pages of the
\* earlier build are dropped; every static list page is to be rendered and
\* generateStaticParams of every static detail route is to be called.
BuildStart ==
  /\ building = {}
  /\ inflight = NoRequest
  /\ cache' = {}
  /\ building' = {BuildTask(pg, NoParam, "render") : pg \in StaticListRoutes} \cup
                 {BuildTask(pg, NoParam, "params") : pg \in StaticDetailRoutes}
  /\ UNCHANGED <<users, posts, now, nextUserId, nextPostId, opCount, lastOp,
                 pc, insertedUsers, interfered, rendered, requests, calls,
                 responses, served, inflight>>

\* generateStaticParams of one detail route is called and issues its
\* SELECT, `await db.select({id}).from(posts).where(eq(posts.published, 1))`:
\* the database reads the rows of that moment, or rejects the query.
BuildParamsQuery(t, dbError) ==
  /\ t \in building
  /\ t.kind = "params"
  /\ \A u \in building : u.phase = "todo"
  /\ building' = (building \ {t}) \cup
                 {IF dbError THEN [t EXCEPT !.phase = "failed"]
                  ELSE [t EXCEPT !.phase = "rows",
                                 !.ids = StaticParams(t.page, posts)]}
  /\ UNCHANGED <<users, posts, now, nextUserId, nextPostId, opCount, lastOp,
                 pc, insertedUsers, interfered, rendered, requests, calls,
                 responses, cache, served, inflight>>

\* The await of generateStaticParams is over: it returns one {id} for each
\* row it read, and a page is to be rendered for each; what was written to
\* the table since the SELECT is not in them.  A rejected query ends the
\* build without a deployment.
BuildParamsReturn(t) ==
  /\ t \in building
  /\ t.kind = "params"
  /\ t.phase # "todo"
  /\ building' = IF t.phase = "failed" THEN {}
                 ELSE (building \ {t}) \cup
                      {BuildTask(t.page, param, "render") : param \in t.ids}
  /\ cache' = IF t.phase = "failed" THEN {} ELSE cache
  /\ UNCHANGED <<users, posts, now, nextUserId, nextPostId, opCount, lastOp,
                 pc, insertedUsers, interfered, rendered, requests, calls,
                 responses, served, inflight>>

\* A page function is called by the build and issues its SELECT: the
\* database reads the rows of that moment, or rejects the query.
BuildRenderQuery(t, dbError) ==
  /\ t \in building
  /\ t.kind = "render"
  /\ \A u \in building : u.phase = "todo"
  /\ IF dbError
       THEN building' = (building \ {t}) \cup {[t EXCEPT !.phase = "failed"]}
       ELSE \E l \in (IF t.param = NoParam THEN ListQuery(t.page, posts)
                      ELSE DetailQuery(t.page, posts, t.param)) :
              building' = (building \ {t}) \cup
                          {[t EXCEPT !.phase = "rows", !.list = l]}
  /\ UNCHANGED <<users, posts, now, nextUserId, nextPostId, opCount, lastOp,
                 pc, insertedUsers, interfered, rendered, requests, calls,
                 responses, cache, served, inflight>>

\* The await of the page function is over: the page made from the rows it
\* read is kept as the prerendered page, whatever was written to the table
\* since the SELECT.  A detail page that read no row is prerendered as
\* notFound.  A rejected query ends the build without a deployment.
BuildRenderReturn(t) ==
  /\ t \in building
  /\ t.kind = "render"
  /\ t.phase # "todo"
  /\ IF t.phase = "failed"
       THEN building' = {} /\ cache' = {}
       ELSE /\ building' = building \ {t}
            /\ cache' = cache \cup
                 {Entry(t.page, t.param,
                        IF t.param # NoParam /\ Len(t.list) = 0 THEN "notFound"
                        ELSE "ok",
                        t.list, now, FALSE)}
  /\ UNCHANGED <<users, posts, now, nextUserId, nextPostId, opCount, lastOp,
                 pc, insertedUsers, interfered, rendered, requests, calls,
                 responses, served, inflight>>

\* One step of a build.  The functions of a build are called in any order,
\* one at a time: the next is called when the one before has returned.
BuildStep ==
  \/ \E t \in building, dbError \in BOOLEAN : BuildParamsQuery(t, dbError)
  \/ \E t \in building : BuildParamsReturn(t)
  \/ \E t \in building, dbError \in BOOLEAN : BuildRenderQuery(t, dbError)
  \/ \E t \in building : BuildRenderReturn(t)

\* A build starts, or a build under way takes a step.
Build == BuildStart \/ BuildStep

\* A request for a page of the deployed application arrives.  A page that
\* is kept and not tagged is served from the cache at once; when it is
\* stale it is served as it is and marked for a background render.  A
\* force-dynamic page, a page that is not kept (an id that was not
\* prerendered) and a page that revalidatePath has tagged are rendered for
\* the request: the page function issues its SELECT, which reads the tables,
\* and awaits the rows.  What the lookup finds depends on no table, so a
\* statement that falls between the lookup and the SELECT has the effect
\* it has before the request.
Request(page, param, dbError) ==
  LET cfg == RouteConfig(page)
      hit == {e \in cache : e.page = page /\ e.param = param}
  IN
  /\ UNCHANGED building
  /\ IF cfg.dynamic = "force-dynamic" \/ hit = {} \/ \E e \in hit : e.tagged
    THEN /\ inflight = NoRequest
         /\ RenderPage(page, param, dbError)
         /\ inflight' = [kind |-> "request", result |-> rendered',
                      overtaken |-> FALSE]
         /\ UNCHANGED <<cache, served>>
    ELSE \E e \in hit :
           /\ served' = [page |-> page, param |-> param, status |-> e.status,
                         list |-> e.list, source |-> "cache"]
           /\ cache' = IF Stale(e, cfg, now)
                         THEN (cache \ {e}) \cup {[e EXCEPT !.regenerating = TRUE]}
                         ELSE cache
           /\ UNCHANGED <<users, posts, now, nextUserId, nextPostId, opCount,
                          lastOp, pc, insertedUsers, interfered, rendered,
                          requests, calls, responses, inflight>>

\* The background render of a stale page: the page function issues its
\* SELECT and awaits the rows.
Regenerate(e, dbError) ==
  /\ inflight = NoRequest
  /\ e \in cache
  /\ e.regenerating
  /\ RenderPage(e.page, e.param, dbError)
  /\ inflight' = [kind |-> "background", result |-> rendered',
                 overtaken |-> FALSE]
  /\ UNCHANGED <<cache, served, building>>

\* The rows arrive and the page function returns.  The page made from the
\* rows it read replaces what is kept under its path, unless the route is
\* force-dynamic or the render failed; a render made for a request is sent
\* as the response.  Whatever was written or revalidated while the page
\* function waited is not in the page.
Settle ==
  LET r == inflight.result
      cfg == RouteConfig(r.page)
      hit == {e \in cache : e.page = r.page /\ e.param = r.param}
  IN
  /\ inflight # NoRequest
  /\ served = NoServed
  /\ inflight' = NoRequest
  /\ rendered' = r
  /\ served' = IF inflight.kind = "request"
                 THEN [page |-> r.page, param |-> r.param, status |-> r.status,
                       list |-> r.list, source |-> "render"]
                 ELSE served
  /\ cache' = IF cfg.dynamic = "force-dynamic" THEN cache
              ELSE IF r.status = "error"
                THEN {IF e \in hit THEN [e EXCEPT !.regenerating = FALSE] ELSE e :
                        e \in cache}
              ELSE (cache \ hit) \cup {Entry(r.page, r.param, r.status, r.list, now, inflight.overtaken)}
  /\ UNCHANGED <<users, posts, now, nextUserId, nextPostId, opCount, lastOp,
                 pc, insertedUsers, interfered, requests, calls, responses,
                 building>>

\* The text of an id segment.
IdText(param) == IF param.syntax = "uuid" THEN ToString(param.value) ELSE "not-a-uuid"

\* The path under which a page is requested and kept: that of the route
\* for a list page, `/isr/posts/${post.id}` and the like for a detail page.
PagePath(page, param) ==
  IF param = NoParam THEN page
  ELSE (CASE page = "/ssr/posts/[id]" -> "/ssr/posts/"
          [] page = "/ssg/posts/[id]" -> "/ssg/posts/"
          [] OTHER -> "/isr/posts/") \o IdText(param)

\* revalidatePath(path) with a literal path: the page kept under that
\* path, a list page or the page of one post, is tagged and will be
\* rendered anew when it is next requested.  A path that is not the path of
\* a kept page tags nothing.
RevalidatePath(c, path) ==
  {IF PagePath(e.page, e.param) = path THEN [e EXCEPT !.tagged = TRUE] ELSE e :
     e \in c}

\* The render r shows what its query gives on the posts ps.
UpToDate(r, ps) ==
  IF r.param = NoParam THEN r.list \in ListQuery(r.page, ps)
  ELSE r.param.syntax = "uuid" /\ r.list \in DetailQuery(r.page, ps, r.param)

\* revalidatePath(path) returns while the page function of that path awaits
\* rows that the table no longer holds.
Overtakes(path) ==
  /\ inflight # NoRequest
  /\ PagePath(inflight.result.page, inflight.result.param) = path
  /\ inflight.result.status # "error"
  /\ ~UpToDate(inflight.result, posts)

\* POST /api/revalidate as a whole: the handler and what its call of
\* revalidatePath does to the cache.  A render under way is not touched;
\* that the call overtook it is recorded.
Revalidation(body, throws) ==
  /\ POST(body, throws)
  /\ cache' = IF Len(calls') > Len(calls) /\ ~throws
                THEN RevalidatePath(cache, calls'[Len(calls')].path)
                ELSE cache
  /\ inflight' = IF /\ Len(calls') > Len(calls)
                    /\ ~throws
                    /\ Overtakes(calls'[Len(calls')].path)
                   THEN [inflight EXCEPT !.overtaken = TRUE]
                   ELSE inflight
  /\ UNCHANGED <<served, building>>

\* The response has been sent, or a background render is over.
Deliver ==
  /\ served # NoServed \/ (rendered # NoRender /\ inflight = NoRequest)
  /\ served' = NoServed
  /\ rendered' = IF inflight = NoRequest THEN NoRender ELSE rendered
  /\ UNCHANGED <<users, posts, now, nextUserId, nextPostId, opCount, lastOp,
                 pc, insertedUsers, interfered, requests, calls, responses, cache,
                 building, inflight>>

\* Time passes.
Wait(d) ==
  /\ now + d <= MaxClock
  /\ now' = now + d
  /\ UNCHANGED <<users, posts, nextUserId, nextPostId, opCount, lastOp,
                 pc, insertedUsers, interfered, rendered, requests, calls,
                 responses, cache, served, building, inflight>>

\* The statements clients issue while pages are served: a user is added,
\* a post is added for an existing user, published or not, a post is deleted.
ServedClientStep ==
  \/ InsertUser("zoe@example.com")
  \/ \E uid \in UserIds(users), pub \in {Omitted, Given(1)} : InsertPost(uid, pub)
  \/ \E pid \in {p.id : p \in posts} : DeletePost(pid)

\* The revalidation requests sent while pages are served: JSON objects
\* with a path and no secret.
ServedBodies == {b \in Bodies : b.kind = "object" /\ b.path # Omitted /\ b.secret = Omitted}

\* The id segments requested: those of Params and those of cached pages.
RequestParams == Params \cup {e.param : e \in {c \in cache : c.param # NoParam}}

\* The seed is run by hand, one run after the other.
NoSeedRunning == \A s \in SeedProcs : ~Running(s)

\* Clients and seed runs writing to the tables.
Next ==
  \/ opCount < MaxOps /\ ClientStep /\ UNCHANGED fwVars
  \/ \E s \in SeedProcs :
       (pc[s] = "idle" => NoSeedRunning) /\ SeedStep(s) /\ UNCHANGED fwVars

Spec == Init /\ [][Next]_vars

\* Pages rendered against the database while clients write to it.
NextPages ==
  \/ Tick /\ UNCHANGED fwVars
  \/ opCount < MaxPageOps /\ ClientStep /\ UNCHANGED fwVars
  \/ rendered = NoRender /\ PageStep /\ UNCHANGED fwVars
  \/ Respond /\ UNCHANGED fwVars

SpecPages == Init /\ [][NextPages]_vars

\* The revalidation route handling a sequence of requests.
NextApi ==
  \E body \in Bodies, throws \in BOOLEAN :
    Len(requests) < MaxRequests /\ Revalidation(body, throws)

SpecApi == Init /\ [][NextApi]_vars

\* The deployed application.  One response is observed at a time: the next
\* request waits until the response has been sent.
Quiet == served = NoServed /\ rendered = NoRender

\* A request can be taken: no response is being observed.  It does not
\* wait for a page function that awaits its rows.
Free == served = NoServed /\ (rendered = NoRender \/ inflight # NoRequest)

\* The SSR routes: the build, the passing of time, client statements and
\* page requests.
NextSsr ==
  \/ \E d \in Delays : Wait(d)
  \/ opCount < MaxCacheOps /\ ServedClientStep /\ UNCHANGED fwVars
  \/ Quiet /\ BuildStart
  \/ BuildStep
  \/ Free /\ Deployed /\ \E dbError \in BOOLEAN :
                              Request("/ssr/posts", NoParam, dbError)
  \/ Free /\ Deployed /\ \E param \in RequestParams, dbError \in BOOLEAN :
                              Request("/ssr/posts/[id]", param, dbError)
  \/ Settle
  \/ Deliver

SpecSsr == Init /\ [][NextSsr]_vars

\* The SSG routes: the build, client statements, page requests and
\* revalidation requests.
NextSsg ==
  \/ opCount < MaxCacheOps /\ ServedClientStep /\ UNCHANGED fwVars
  \/ Quiet /\ BuildStart
  \/ BuildStep
  \/ Free /\ Deployed /\ \E dbError \in BOOLEAN :
                              Request("/ssg/posts", NoParam, dbError)
  \/ Free /\ Deployed /\ \E param \in RequestParams, dbError \in BOOLEAN :
                              Request("/ssg/posts/[id]", param, dbError)
  \/ Deployed /\ Len(requests) < MaxCacheRequests /\
       \E body \in ServedBodies, throws \in BOOLEAN : Revalidation(body, throws)
  \/ Settle
  \/ Deliver

SpecSsg == Init /\ [][NextSsg]_vars

\* The ISR routes as time passes: the build, the passing of time, client
\* statements, page requests and background renders.
NextIsr ==
  \/ \E d \in Delays : Wait(d)
  \/ opCount < MaxCacheOps /\ ServedClientStep /\ UNCHANGED fwVars
  \/ Quiet /\ BuildStart
  \/ BuildStep
  \/ Free /\ Deployed /\ \E dbError \in BOOLEAN :
                              Request("/isr/posts", NoParam, dbError)
  \/ Free /\ Deployed /\ \E param \in RequestParams, dbError \in BOOLEAN :
                              Request("/isr/posts/[id]", param, dbError)
  \/ Quiet /\ \E e \in cache, dbError \in BOOLEAN : Regenerate(e, dbError)
  \/ Settle
  \/ Deliver

SpecIsr == Init /\ [][NextIsr]_vars

\* The revalidation requests for the ISR pages: the list page and the
\* page of one post.
IsrBodies == {b \in ServedBodies : b.path[1] \in {"/isr/posts", "/isr/posts/1"}}

\* The ISR routes while no page is older than the revalidate interval:
\* the build, client statements, page requests and revalidation requests.
NextOnDemand ==
  \/ \E d \in {x \in Delays : x < ISRPostsRevalidate} : Wait(d)
  \/ opCount < MaxOnDemandOps /\ ServedClientStep /\ UNCHANGED fwVars
  \/ Quiet /\ BuildStart
  \/ BuildStep
  \/ Free /\ Deployed /\ \E dbError \in BOOLEAN :
                              Request("/isr/posts", NoParam, dbError)
  \/ Free /\ Deployed /\ \E param \in RequestParams, dbError \in BOOLEAN :
                              Request("/isr/posts/[id]", param, dbError)
  \/ Deployed /\ Len(requests) < MaxCacheRequests /\
       \E body \in IsrBodies, throws \in BOOLEAN : Revalidation(body, throws)
  \/ Settle
  \/ Deliver

SpecOnDemand == Init /\ [][NextOnDemand]_vars

\* Two seed runs whose statements interleave in any order.  A process that
\* has started keeps executing main() until it ends.
NextSeeds == \E s \in SeedProcs : SeedStep(s) /\ UNCHANGED fwVars

SpecSeeds ==
  /\ Init
  /\ [][NextSeeds]_vars
  /\ \A s \in SeedProcs : WF_vars(Running(s) /\ SeedStep(s) /\ UNCHANGED fwVars)

\* Two seed runs started at any time against a database that stays up,
\* their statements interleaving in any order, on tables that clients have
\* filled beforehand.
NextSeedsUp ==
  \/ (\A s \in SeedProcs : pc[s] = "idle") /\ opCount < MaxOps /\
       ClientStep /\ UNCHANGED fwVars
  \/ \E s \in SeedProcs : SeedStepUp(s) /\ UNCHANGED fwVars

SpecSeedsUp == Init /\ [][NextSeedsUp]_vars

\* Seed runs, one after the other, while /ssr/posts is requested: a render
\* is one query and falls between two statements of a run.
NextSeedPages ==
  \/ \E s \in SeedProcs :
       (pc[s] = "idle" => NoSeedRunning) /\ SeedStep(s) /\ UNCHANGED fwVars
  \/ rendered = NoRender /\ UNCHANGED fwVars /\
       \E dbError \in BOOLEAN : SSRPostsPage(dbError)
  \/ Respond /\ UNCHANGED fwVars

SpecSeedPages == Init /\ [][NextSeedPages]_vars

\* A build, and builds after it, while clients write to the tables: the
\* SELECT of each function the build calls and the function's return are
\* steps of their own, and client statements fall between any two steps.
NextBuild ==
  \/ opCount < MaxBuildOps /\ ServedClientStep /\ UNCHANGED fwVars
  \/ Build

SpecBuild == Init /\ [][NextBuild]_vars

\* The revalidation requests sent in SpecReads: one without a usable path
\* and one for the ISR list page.
ReadBodies == {b \in ServedBodies : b.path[1] \in {"", "/isr/posts"}}

\* Everything that reads.  The build calls both generateStaticParams and
\* the page functions of the SSG and ISR routes; the three list pages and
\* the SSR detail page are requested, which runs the page function of a
\* force-dynamic page and of a page that revalidatePath has tagged; POST
\* /api/revalidate is handled.  Client statements are executed at any
\* time, also while a function awaits its rows.
NextReads ==
  \/ opCount < MaxReadOps /\ ServedClientStep /\ UNCHANGED fwVars
  \/ Quiet /\ BuildStart
  \/ BuildStep
  \/ Free /\ Deployed /\ \E page \in ListRoutes, dbError \in BOOLEAN :
                              Request(page, NoParam, dbError)
  \/ Free /\ Deployed /\ \E param \in RequestParams, dbError \in BOOLEAN :
                              Request("/ssr/posts/[id]", param, dbError)
  \/ Deployed /\ Len(requests) < MaxCacheRequests /\
       \E body \in ReadBodies, throws \in BOOLEAN : Revalidation(body, throws)
  \/ Settle
  \/ Deliver

\* The tables as clients have left them before the application is built:
\* one user with one post that is not published.
InitReads ==
  /\ users = {[id |-> 1, email |-> "zoe@example.com"]}
  /\ posts = {[id |-> 1, userId |-> 1, published |-> PublishedDefault, createdAt |-> 0]}
  /\ now = 0
  /\ nextUserId = 2
  /\ nextPostId = 2
  /\ opCount = 0
  /\ lastOp = NoOp
  /\ pc = [s \in SeedProcs |-> "idle"]
  /\ insertedUsers = [s \in SeedProcs |-> <<>>]
  /\ interfered = [s \in SeedProcs |-> FALSE]
  /\ rendered = NoRender
  /\ requests = <<>>
  /\ calls = <<>>
  /\ responses = <<>>
  /\ cache = {}
  /\ served = NoServed
  /\ building = {}
  /\ inflight = NoRequest

SpecReads == InitReads /\ [][NextReads]_vars

\* =================================================================== claims
ResponsesTo(i) == {r \in 1..Len(responses) : responses[r].req = i}
CallsFor(i) == {k \in 1..Len(calls) : calls[k].req = i}
Status(n) == {r \in 1..Len(responses) : responses[r].status = n}

\* C1 as stated: every request whose body carries a path leads to exactly
\* one revalidatePath call with that path and a 200 response that echoes the
\* path, and the number of calls equals the number of 200 responses.
C1_AsStated ==
  /\ \A i \in 1..Len(requests) :
       (requests[i].kind = "object" /\ requests[i].path # Omitted) =>
         /\ Cardinality(CallsFor(i)) = 1
         /\ \A k \in CallsFor(i) : calls[k].path = requests[i].path[1]
         /\ Cardinality(ResponsesTo(i)) = 1
         /\ \A r \in ResponsesTo(i) :
              /\ responses[r].status = 200
              /\ responses[r].revalidated
              /\ responses[r].path = requests[i].path
  /\ Len(calls) = Cardinality(Status(200))

\* C1 (amended): every request whose body carries a non-empty path leads to
\* exactly one revalidatePath call with that path; when the call returns the
\* response is 200 with revalidated = true and the path echoed; the number
\* of calls that returned equals the number of 200 responses.
C1_RevalidateOncePerRequest ==
  /\ \A i \in 1..Len(requests) :
       (requests[i].kind = "object" /\ ~Falsy(requests[i].path)) =>
         /\ Cardinality(CallsFor(i)) = 1
         /\ \A k \in CallsFor(i) :
              /\ calls[k].path = requests[i].path[1]
              /\ ~calls[k].threw =>
                   /\ Cardinality(ResponsesTo(i)) = 1
                   /\ \A r \in ResponsesTo(i) :
                        /\ responses[r].status = 200
                        /\ responses[r].revalidated
                        /\ responses[r].path = requests[i].path
  /\ Cardinality({k \in 1..Len(calls) : ~calls[k].threw}) = Cardinality(Status(200))

\* Two requests with the same path were both answered 200, each after its
\* own revalidatePath call.
C1_Witness ==
  \E i, j \in 1..Len(requests) :
    /\ i < j
    /\ requests[i].kind = "object" /\ requests[j].kind = "object"
    /\ ~Falsy(requests[i].path)
    /\ requests[i].path = requests[j].path
    /\ \E r \in ResponsesTo(i) : responses[r].status = 200
    /\ \E r \in ResponsesTo(j) : responses[r].status = 200
    /\ CallsFor(i) # {} /\ CallsFor(j) # {}

\* C2: a request whose JSON body has no path field is answered 400 and
\* revalidatePath is not invoked for it.
C2_MissingPathIs400 ==
  \A i \in 1..Len(requests) :
    (requests[i].kind = "object" /\ requests[i].path = Omitted) =>
      /\ ResponsesTo(i) # {}
      /\ \A r \in ResponsesTo(i) : responses[r].status = 400
      /\ CallsFor(i) = {}

\* A request without a path was answered 400 after an earlier request had
\* been revalidated.
C2_Witness ==
  \E i, j \in 1..Len(requests) :
    /\ i < j
    /\ CallsFor(i) # {}
    /\ requests[j].kind = "object" /\ requests[j].path = Omitted
    /\ \E r \in ResponsesTo(j) : responses[r].status = 400

\* C3: every request received has exactly one response, with status 200,
\* 400 or 500; when parsing the body or revalidatePath raised, the response
\* is 500 and carries the text of the error.
C3_AlwaysOneResponse ==
  \A i \in 1..Len(requests) :
    /\ Cardinality(ResponsesTo(i)) = 1
    /\ \A r \in ResponsesTo(i) :
         /\ responses[r].status \in {200, 400, 500}
         /\ (\/ requests[i].kind \in {"malformed", "null"}
             \/ \E k \in CallsFor(i) : calls[k].threw)
              => (responses[r].status = 500 /\ responses[r].error # "")

\* One request failed while parsing and another inside revalidatePath; both
\* were answered 500.
C3_Witness ==
  \E i, j \in 1..Len(requests) :
    /\ requests[i].kind = "malformed"
    /\ \E k \in CallsFor(j) : calls[k].threw
    /\ \E r \in ResponsesTo(i) : responses[r].status = 500
    /\ \E r \in ResponsesTo(j) : responses[r].status = 500
ListPages == {"/ssr/posts", "/ssg/posts", "/isr/posts"}
DetailPages == {"/ssr/posts/[id]", "/ssg/posts/[id]", "/isr/posts/[id]"}

\* C4: the list a list page obtains holds exactly the posts whose published
\* flag is 1, each once, in ascending order of createdAt.
C4_PublishedListOrdered ==
  (rendered.page \in ListPages /\ rendered.status = "ok") =>
    LET l == rendered.list IN
    /\ {l[i].id : i \in 1..Len(l)} = {p.id : p \in {q \in posts : q.published = 1}}
    /\ \A i, j \in 1..Len(l) : i < j =>
         /\ l[i].id # l[j].id
         /\ l[i].createdAt <= l[j].createdAt
    /\ \A i \in 1..Len(l) : \E p \in posts :
         /\ p.published = 1
         /\ l[i] = [id |-> p.id, createdAt |-> p.createdAt, userId |-> p.userId]

\* A list page has listed two published posts created at different times
\* while the table also holds an unpublished post.
C4_Witness ==
  /\ rendered.page \in ListPages
  /\ rendered.status = "ok"
  /\ Len(rendered.list) >= 2
  /\ rendered.list[1].createdAt < rendered.list[2].createdAt
  /\ \E p \in posts : p.published = 0

\* C5 as stated: when the database answers, a detail page whose id matches
\* no post ends in not-found, and one whose id matches a post yields that
\* post.
C5_AsStated ==
  (rendered.page \in DetailPages /\ rendered.error # "db_unavailable") =>
    LET match == {p \in posts : rendered.param.syntax = "uuid"
                                 /\ p.id = rendered.param.value} IN
    IF match = {}
      THEN rendered.status = "notFound"
      ELSE /\ rendered.status = "ok"
           /\ Len(rendered.list) = 1
           /\ \E p \in match : rendered.list[1].id = p.id

\* C6: every post's userId is the id of a user in the table.
C6_PostsReferenceUsers == \A p \in posts : \E u \in users : u.id = p.userId

\* A seed run has failed, a client has tried to delete a user, and posts
\* remain in the table.
C6_Witness ==
  /\ \E s \in SeedProcs : pc[s] = "failed"
  /\ lastOp.op = "deleteUser"
  /\ posts # {}

\* C7: an insert into posts naming an existing user succeeds and adds one
\* row for that user; one naming no existing user fails with a foreign-key
\* violation and changes neither table.
C7_InsertPostForeignKey ==
  [][(opCount' = opCount + 1 /\ lastOp'.op = "insertPost") =>
       IF \E u \in users : u.id = lastOp'.id
         THEN /\ lastOp'.result = "ok"
              /\ users' = users
              /\ \E p \in posts' \ posts :
                   /\ p.userId = lastOp'.id
                   /\ posts' = posts \cup {p}
         ELSE /\ lastOp'.result = "fk_violation"
              /\ users' = users
              /\ posts' = posts]_vars

\* An insert into posts has just failed on the foreign key although the
\* users table is not empty.
C7_Witness ==
  /\ lastOp.op = "insertPost"
  /\ lastOp.result = "fk_violation"
  /\ users # {}

\* C8: no two users ever share an email, and an insert into users with an
\* email already present fails with a uniqueness violation and leaves the
\* table as it was.
C8_EmailUnique ==
  [][/\ \A u, v \in users' : u.email = v.email => u = v
     /\ (opCount' = opCount + 1 /\ lastOp'.op = "insertUser"
         /\ \E u \in users : u.email = lastOp'.email) =>
          (lastOp'.result = "unique_violation" /\ users' = users)]_vars

\* An insert into users has just failed on the unique email.
C8_Witness ==
  /\ lastOp.op = "insertUser"
  /\ lastOp.result = "unique_violation"
  /\ \E u \in users : u.email = lastOp.email

\* C9: deleting a user that a post still references fails and keeps the
\* user and the posts; deleting a user without posts succeeds and removes
\* only that user.
C9_DeleteUserNoCascade ==
  [][(opCount' = opCount + 1 /\ lastOp'.op = "deleteUser") =>
       IF \E p \in posts : p.userId = lastOp'.id
         THEN /\ lastOp'.result = "fk_violation"
              /\ users' = users
              /\ posts' = posts
         ELSE /\ lastOp'.result = "ok"
              /\ users' = {u \in users : u.id # lastOp'.id}
              /\ posts' = posts]_vars

\* A delete of a user that owns posts has just been refused.
C9_Witness ==
  /\ lastOp.op = "deleteUser"
  /\ lastOp.result = "fk_violation"
  /\ \E u \in users : u.id = lastOp.id
  /\ \E p \in posts : p.userId = lastOp.id

\* The fixed seed rows and nothing else: the 5 seed users, 10 posts of which
\* 6 are published and 4 are not, 2 posts for each user.
SeedRowsOnly ==
  /\ Cardinality(users) = 5
  /\ {u.email : u \in users} = {userData[i] : i \in 1..Len(userData)}
  /\ Cardinality(posts) = 10
  /\ Cardinality({p \in posts : p.published = 1}) = 6
  /\ Cardinality({p \in posts : p.published = 0}) = 4
  /\ \A u \in users : Cardinality({p \in posts : p.userId = u.id}) = 2

\* C10: when a seed run has completed and nobody else has written to the
\* tables since it began, the tables hold the fixed seed rows and nothing
\* else, whatever they held before; so a second run gives the same counts.
C10_SeedIsReset ==
  \A s \in SeedProcs : (pc[s] = "done" /\ ~interfered[s]) => SeedRowsOnly

\* A second seed run has completed undisturbed after a first run and a
\* client insert of a user the seed does not know.
C10_Witness ==
  /\ pc[1] = "done"
  /\ pc[2] = "done"
  /\ \E s \in SeedProcs : ~interfered[s]
  /\ lastOp.op = "insertUser"
  /\ lastOp.result = "ok"
  /\ lastOp.email = "zoe@example.com"

\* The statement a seed run executes after the one at `at`.
SeedSuccessor(at) ==
  CASE at = "idle" -> "delPosts"
    [] at = "delPosts" -> "delUsers"
    [] at = "delUsers" -> "insUsers"
    [] at = "insUsers" -> "insPosts"
    [] at = "insPosts" -> "close"
    [] at = "close" -> "done"
    [] OTHER -> at

\* The database rejects the statement seed run s is about to execute.
SeedMustFail(s) ==
  \/ pc[s] = "delUsers" /\ \E u \in users : \E p \in posts : p.userId = u.id
  \/ pc[s] = "insUsers" /\ \E u \in users : \E i \in 1..Len(userData) :
                              u.email = userData[i]
  \/ pc[s] = "insPosts" /\ \E i \in 1..Len(insertedUsers[s]) :
                              \A u \in users : u.id # insertedUsers[s][i]

\* C11: every seed run that has started ends, either normally (after the
\* four statements and pool.end()) or with exit status 1; the statements run
\* in order, a rejected statement ends the run at once, and a run that has
\* ended executes nothing more.
C11_SeedTerminates ==
  /\ \A s \in SeedProcs : (pc[s] # "idle") ~> (pc[s] \in {"done", "failed"})
  /\ [][\A s \in SeedProcs :
          /\ pc[s] \in {"done", "failed"} => pc'[s] = pc[s]
          /\ pc'[s] # pc[s] => pc'[s] \in {SeedSuccessor(pc[s]), "failed"}
          /\ (pc'[s] # pc[s] /\ SeedMustFail(s)) => pc'[s] = "failed"]_vars

\* One run has ended normally and the other with exit status 1.
C11_Witness ==
  \E s, t \in SeedProcs : pc[s] = "done" /\ pc[t] = "failed"

SsrPages == {"/ssr/posts", "/ssr/posts/[id]"}
SsgPages == {"/ssg/posts", "/ssg/posts/[id]"}
IsrPages == {"/isr/posts", "/isr/posts/[id]"}

\* The response sv is what the page's query gives against the posts ps.
ReflectsPosts(sv, lists, ps) ==
  IF sv.param = NoParam
    THEN sv.status = "ok" /\ sv.list \in lists
    ELSE /\ sv.param.syntax = "uuid"
         /\ sv.list \in {MapColumns(l) : l \in Limit1(WhereId(ps, sv.param))}
         /\ sv.status = IF Len(sv.list) = 0 THEN "notFound" ELSE "ok"

\* The render r is made for path p.
RenderOf(r, page, param) == r.page = page /\ r.param = param

\* A page function is run in this step: its SELECT reads the tables.
RenderStarts == inflight = NoRequest /\ inflight' # NoRequest

\* A response is sent for a request in this step.
Answered == served = NoServed /\ served' # NoServed

\* C12: every response of /ssr/posts and /ssr/posts/[id] comes from a render
\* made for that request and nothing is kept of it; the render's query is
\* run while the request is handled and, unless it fails, gives the posts as
\* they are in the database at that moment; the response shows what the
\* query gave.
C12_SsrFresh ==
  [][/\ (Answered /\ served'.page \in SsrPages) =>
          /\ served'.source = "render"
          /\ inflight.kind = "request"
          /\ RenderOf(inflight.result, served'.page, served'.param)
          /\ served'.status = inflight.result.status
          /\ served'.list = inflight.result.list
          /\ cache' = cache
     /\ (RenderStarts /\ inflight'.result.page \in SsrPages) =>
          /\ inflight'.kind = "request"
          /\ inflight'.result.status # "error" =>
               ReflectsPosts(inflight'.result, SSRPostList(posts), posts)
     /\ \A e \in cache' : e.page \notin SsrPages]_vars

\* /ssr/posts shows a post although the build saw an empty posts table.
C12_Witness ==
  /\ served.page = "/ssr/posts"
  /\ served.status = "ok"
  /\ served.source = "render"
  /\ Len(served.list) > 0
  /\ \E e \in cache : e.page = "/ssg/posts" /\ e.list = <<>>

\* A client's insert completed while SSRPostsPage awaited its rows: the
\* response lists no post while the table holds a published one.
SsrRenderOvertaken ==
  /\ served.page = "/ssr/posts"
  /\ served.source = "render"
  /\ served.list = <<>>
  /\ rendered.page = "/ssr/posts"
  /\ \E p \in posts : p.published = 1

\* C13 as stated: once built, every response of /ssg/posts and
\* /ssg/posts/[id] comes from the cache, without a query.
C13_AsStated == served.page \in SsgPages => served.source = "cache"

\* A page of no post was requested and is kept as notFound; the page of a
\* post inserted afterwards was rendered on its first request and is kept.
NewPostRendered ==
  /\ served.page = "/ssg/posts/[id]"
  /\ served.param = UuidString(1)
  /\ served.status = "ok"
  /\ served.source = "render"
  /\ \E e \in cache : /\ e.page = "/ssg/posts/[id]"
                      /\ e.param = UuidString(UnknownId)
                      /\ e.status = "notFound"
  /\ \E e \in cache : /\ e.page = "/ssg/posts/[id]"
                      /\ e.param = UuidString(1)
                      /\ e.status = "ok"

\* A request for the page of cache entry e is answered in this step.
RequestFor(e) ==
  /\ Answered
  /\ served'.page = e.page
  /\ served'.param = e.param

\* The background render of the page of cache entry e reads the tables in
\* this step.
RegenerationOf(e) ==
  /\ RenderStarts
  /\ inflight'.kind = "background"
  /\ RenderOf(inflight'.result, e.page, e.param)

\* The background render of the page of cache entry e ends in this step.
RegeneratedOf(e) ==
  /\ inflight.kind = "background"
  /\ inflight' = NoRequest
  /\ RenderOf(inflight.result, e.page, e.param)

\* C14: a request for a cached ISR page less than 60 seconds old is answered
\* from the cache without a query and changes nothing; a request for one
\* more than 60 seconds old is answered with the old page, without a query,
\* and starts a regeneration; the regeneration reads the database as it is
\* at that time and, when it succeeds, the page it made replaces the old one.
C14_IsrStaleWhileRevalidate ==
  [][\A e \in cache :
       e.page \in IsrPages =>
         /\ (~e.tagged /\ RequestFor(e) /\ now - e.generatedAt # 60) =>
               /\ served'.source = "cache"
               /\ served'.status = e.status
               /\ served'.list = e.list
               /\ rendered' = rendered
               /\ inflight' = inflight
         /\ (~e.tagged /\ RequestFor(e) /\ now - e.generatedAt < 60) => cache' = cache
         /\ (~e.tagged /\ RequestFor(e) /\ now - e.generatedAt > 60) =>
               cache' = (cache \ {e}) \cup {[e EXCEPT !.regenerating = TRUE]}
         /\ RegenerationOf(e) =>
               /\ e.regenerating
               /\ cache' = cache
               /\ inflight'.result.status # "error" =>
                    ReflectsPosts(inflight'.result, ISRPostList(posts), posts)
         /\ (RegeneratedOf(e) /\ inflight.result.status # "error") =>
               cache' = (cache \ {e}) \cup
                    {Entry(e.page, e.param, inflight.result.status,
                           inflight.result.list, now, FALSE)}]_vars

\* A regeneration of /isr/posts has just ended, more than 60 seconds after
\* the build: the page kept is the one it made and lists a post; no
\* revalidation request was made.
C14_Witness ==
  /\ served = NoServed
  /\ inflight = NoRequest
  /\ rendered.page = "/isr/posts"
  /\ Len(rendered.list) > 0
  /\ requests = <<>>
  /\ \E e \in cache : /\ e.page = "/isr/posts"
                      /\ e.generatedAt = now
                      /\ now > 60
                      /\ ~e.regenerating
                      /\ e.list = rendered.list

\* C15 as stated: no page that rendered successfully shows a post whose
\* published flag is not 1.
C15_AsStated ==
  rendered.status = "ok" =>
    \A i \in 1..Len(rendered.list) :
      \A p \in posts : p.id = rendered.list[i].id => p.published = 1

\* What a detail page yields for an id: the error, not-found, or the post.
DetailOutcomes(results, param) ==
  IF param.syntax # "uuid" THEN {"invalid_uuid"}
  ELSE {IF Len(l) = 0 THEN <<"notFound">> ELSE <<"ok", l[1]>> : l \in results}

\* Against the same tables the three list pages have the same possible
\* post sequences (one sequence when no two published posts share a
\* createdAt), and the three detail pages the same outcome for the same id.
SameReadsUpToTies ==
  /\ SSGPostList(posts) = SSRPostList(posts)
  /\ ISRPostList(posts) = SSRPostList(posts)
  /\ (\A p, q \in WherePublished(posts) : p.createdAt = q.createdAt => p = q)
        => Cardinality(SSRPostList(posts)) = 1
  /\ \A param \in Params :
       /\ DetailOutcomes(SSGPost(posts, param), param)
            = DetailOutcomes(SSRPost(posts, param), param)
       /\ DetailOutcomes(ISRPost(posts, param), param)
            = DetailOutcomes(SSRPost(posts, param), param)
       /\ Cardinality(DetailOutcomes(SSRPost(posts, param), param)) = 1

\* C16 as stated: what one of the three list pages has rendered is the
\* sequence each of the three list queries gives on the same tables, and
\* what one of the three detail pages has rendered for an id is the outcome
\* each of the three detail queries gives for that id on the same tables.
C16_AsStated ==
  /\ (rendered.page \in ListPages /\ rendered.status = "ok") =>
       \A l \in SSGPostList(posts) \cup ISRPostList(posts) \cup SSRPostList(posts) :
         l = rendered.list
  /\ (rendered.page \in DetailPages /\ rendered.status \in {"ok", "notFound"}) =>
       \A l \in SSGPost(posts, rendered.param) \cup ISRPost(posts, rendered.param)
                  \cup SSRPost(posts, rendered.param) :
         l = rendered.list

\* A list page has rendered two published posts with the same createdAt.
ListRenderedWithTie ==
  /\ rendered.page \in ListPages
  /\ rendered.status = "ok"
  /\ Len(rendered.list) = 2
  /\ rendered.list[1].createdAt = rendered.list[2].createdAt

\* POST /api/revalidate answers 200 for the path of the page in this step.
RevalidatedIn(page, param) ==
  /\ Len(responses') > Len(responses)
  /\ responses'[Len(responses')].status = 200
  /\ PathText(responses'[Len(responses')].path) = PagePath(page, param)

\* What revalidatePath guarantees for the pages that are kept.  When POST
\* /api/revalidate answers 200 for a path, the page kept under that path, a
\* list page or the page of one post, is tagged; a tagged ISR page stays
\* tagged until a render of it ends or the application is rebuilt, and a
\* request for it is answered by a render, which reads the database as it
\* is then, however young the kept page is.
TaggedPagesAreRendered ==
  [][/\ \A e \in cache' : RevalidatedIn(e.page, e.param) => e.tagged
     /\ \A e \in cache :
          (e.page \in IsrPages /\ e.tagged) =>
            /\ \/ e \in cache'
               \/ inflight' = NoRequest /\ RenderOf(inflight.result, e.page, e.param)
               \/ building' # {}
            /\ RequestFor(e) => served'.source = "render"
     /\ (RenderStarts /\ inflight'.result.page \in IsrPages
           /\ inflight'.result.status # "error") =>
          ReflectsPosts(inflight'.result, ISRPostList(posts), posts)]_vars

RevalidatedListServed ==
  /\ served.page = "/isr/posts"
  /\ served.source = "render"
  /\ Len(served.list) > 0
  /\ now < 60
  /\ Len(responses) > 0
  /\ responses[Len(responses)].status = 200
  /\ responses[Len(responses)].path = Given("/isr/posts")
  /\ \A e \in cache : e.generatedAt = 0 \/ e.page = "/isr/posts"

\* The page of post 1 was being rendered when the post was deleted and a
\* revalidation request for its path was answered 200: the page made from
\* the rows read before is kept, untagged, and a request that arrived
\* after the 200 is answered with it from the cache.
RevalidationOvertaken ==
  /\ posts = {}
  /\ Len(responses) > 0
  /\ responses[Len(responses)].status = 200
  /\ responses[Len(responses)].path = Given("/isr/posts/1")
  /\ served.page = "/isr/posts/[id]"
  /\ served.param = UuidString(1)
  /\ served.status = "ok"
  /\ served.source = "cache"
  /\ \E e \in cache : /\ e.page = "/isr/posts/[id]"
                      /\ e.param = UuidString(1)
                      /\ e.status = "ok"
                      /\ e.overtaken
                      /\ ~e.tagged

\* C18: a render whose query failed ends as an error, with no post list, and
\* never as a rendered page or as not-found.
C18_QueryFailurePropagates ==
  rendered.error # "none" => (rendered.status = "error" /\ rendered.list = <<>>)

\* The query of the SSR list page failed while published posts exist.
C18_Witness ==
  /\ rendered.page = "/ssr/posts"
  /\ rendered.error = "db_unavailable"
  /\ rendered.status = "error"
  /\ WherePublished(posts) # {}

\* The rows insert(users).values(userData) stored for seed run s.
SeedUsersOf(s) ==
  {[id |-> insertedUsers[s][i], email |-> userData[i]] : i \in 1..Len(userData)}

\* C19: a seed run that fails leaves the tables as they are at that point:
\* the failing statement changes nothing, nothing is rolled back, so a run
\* that fails while inserting users leaves both tables empty and a run that
\* fails while inserting posts leaves its 5 users and no posts (when nobody
\* else has written since the run began).
C19_SeedNotAtomic ==
  [][\A s \in SeedProcs :
       (pc'[s] = "failed" /\ pc[s] # "failed") =>
          /\ users' = users
          /\ posts' = posts
          /\ (pc[s] = "insUsers" /\ ~interfered[s]) =>
                (users' = {} /\ posts' = {})
          /\ (pc[s] = "insPosts" /\ ~interfered[s]) =>
                (users' = SeedUsersOf(s) /\ posts' = {})]_vars

\* A run has failed while inserting posts, after a client had stored a post:
\* that post is gone and the run's 5 users are there.
C19_Witness ==
  \E s \in SeedProcs :
    /\ pc[s] = "failed"
    /\ ~interfered[s]
    /\ insertedUsers[s] # <<>>
    /\ lastOp.op = "insertPost"
    /\ lastOp.result = "ok"
    /\ posts = {}
    /\ users = SeedUsersOf(s)

\* C20 as stated: every stored post has published 0 or 1.
C20_AsStated == \A p \in posts : p.published \in {0, 1}

\* C21: in a seed run that nobody else disturbs, the users are cleared when
\* no post is left, so the foreign key blocks neither clearing step, and
\* the posts are inserted when the run's users are in the table; every post
\* a run inserts references a user that the same run inserted.
C21_SeedDependencyOrder ==
  /\ [](\A s \in SeedProcs :
          /\ (pc[s] = "delUsers" /\ ~interfered[s]) =>
                \A u \in users : ~Referenced(posts, u.id)
          /\ (pc[s] = "insPosts" /\ ~interfered[s]) =>
                \A i \in 1..Len(insertedUsers[s]) :
                  ~FkViolation(users, insertedUsers[s][i]))
  /\ [][\A s \in SeedProcs :
          (pc[s] = "insPosts" /\ pc'[s] = "close") =>
             /\ Cardinality(posts' \ posts) = Len(postData)
             /\ \A p \in posts' \ posts :
                  \E i \in 1..Len(insertedUsers[s]) :
                    p.userId = insertedUsers[s][i]]_vars

\* An undisturbed seed run has completed although a client had stored a
\* post, and with it a referenced user, before the run began.
C21_Witness ==
  \E s \in SeedProcs :
    /\ pc[s] = "done"
    /\ ~interfered[s]
    /\ lastOp.op = "insertPost"
    /\ lastOp.result = "ok"
    /\ \A p \in posts : \E i \in 1..Len(insertedUsers[s]) :
         p.userId = insertedUsers[s][i]

\* The id segments a list links to: href={`/ssg/posts/${post.id}`}.
LinkedParams(list) == {UuidString(list[i].id) : i \in 1..Len(list)}

\* The id segments of the pages cached for a detail route.
CachedParams(c, page) == {e.param : e \in {d \in c : d.page = page}}

\* The list route whose page links to the pages of detail route pg.
ListRouteOf(pg) == IF pg = "/ssg/posts/[id]" THEN "/ssg/posts" ELSE "/isr/posts"

\* C22: generateStaticParams of the SSG and of the ISR detail route gives
\* the ids of the posts with published = 1, one for each and no other, so
\* every id a list page built from the same rows links to is among them.  In
\* a build, the SELECT of generateStaticParams reads exactly the ids of the
\* posts published at that moment, which are the ids a list page rendered
\* from the rows of that moment links to; when the function returns, a
\* detail page is scheduled for exactly the ids it read, whatever was
\* written since; and a detail page whose page function returns is kept as
\* the prerendered page of its id.
C22_StaticParamsArePublished ==
  /\ [](/\ SSGStaticParams(posts) = {UuidString(p.id) : p \in {q \in posts : q.published = 1}}
        /\ ISRStaticParams(posts) = {UuidString(p.id) : p \in {q \in posts : q.published = 1}}
        /\ Cardinality(SSGStaticParams(posts)) = Cardinality({q \in posts : q.published = 1})
        /\ \A l \in SSGPostList(posts) : LinkedParams(l) = SSGStaticParams(posts)
        /\ \A l \in ISRPostList(posts) : LinkedParams(l) = ISRStaticParams(posts))
  /\ [][\A t \in building \ building' :
          /\ (t.kind = "params" /\ t.phase = "todo") =>
               \A u \in building' \ building :
                 /\ u.page = t.page /\ u.kind = "params"
                 /\ u.phase = "rows" =>
                      /\ u.ids = {UuidString(p.id) : p \in {q \in posts : q.published = 1}}
                      /\ \A l \in ListQuery(ListRouteOf(t.page), posts) :
                           LinkedParams(l) = u.ids
          /\ (t.kind = "params" /\ t.phase = "rows"
                /\ building \ {t} \subseteq building') =>
               /\ {u.param : u \in building' \ building} = t.ids
               /\ \A u \in building' \ building :
                    u = BuildTask(t.page, u.param, "render")
               /\ cache' = cache
          /\ (t.kind = "render" /\ t.param # NoParam /\ t.phase = "rows"
                /\ building' = building \ {t}) =>
               t.param \in CachedParams(cache', t.page)]_vars

\* A build has ended with a published and an unpublished post in the table:
\* it has prerendered the detail page of the published post, which its SSG
\* list page links to, and none for the unpublished post.
C22_Witness ==
  /\ building = {}
  /\ \E e \in cache : e.page = "/ssg/posts" /\ Len(e.list) = 1
                      /\ LinkedParams(e.list) = CachedParams(cache, "/ssg/posts/[id]")
  /\ \E e \in cache : /\ e.page = "/ssg/posts/[id]"
                      /\ e.status = "ok"
                      /\ e.param \in SSGStaticParams(posts)
  /\ \E p \in posts : /\ p.published = 0
                      /\ UuidString(p.id) \notin CachedParams(cache, "/ssg/posts/[id]")
                      /\ UuidString(p.id) \notin CachedParams(cache, "/isr/posts/[id]")

\* What a build leaves when clients write between its queries.  A post
\* deleted after generateStaticParams returned its id: its detail page is
\* prerendered as notFound and no list shows it.
BuildSawDelete ==
  /\ building = {}
  /\ \E e \in cache : e.page = "/ssg/posts/[id]" /\ e.status = "notFound"
  /\ \A e \in cache : e.param = NoParam => e.list = <<>>
  /\ CachedParams(cache, "/isr/posts/[id]") = {}

\* A post published after generateStaticParams of the SSG route and before
\* the list pages were rendered: the SSG list links to a page that was not
\* prerendered.
BuildSawInsert ==
  /\ building = {}
  /\ \E e \in cache : /\ e.page = "/ssg/posts"
                      /\ Len(e.list) = 2
                      /\ Cardinality(CachedParams(cache, "/ssg/posts/[id]")) = 1
  /\ Cardinality(CachedParams(cache, "/isr/posts/[id]")) = 2

\* A client statement completed while a function of the build awaited its
\* rows: generateStaticParams holds ids that are not those of the posts
\* published now.
StaticParamsOvertaken ==
  \E t \in building :
    /\ t.kind = "params"
    /\ t.phase = "rows"
    /\ t.ids # StaticParams(t.page, posts)

\* The page function of a detail page holds the row of a post that was
\* deleted while it awaited: the page it returns is kept all the same.
BuildRenderOvertaken ==
  \E t \in building :
    /\ t.kind = "render"
    /\ t.phase = "rows"
    /\ t.param # NoParam
    /\ Len(t.list) = 1
    /\ posts = {}

\* C23: two requests whose JSON bodies carry the same path, whatever their
\* secrets, lead to the same revalidatePath invocation and, when that
\* invocation behaves the same for both, to the same status and the same
\* path in the response; a request without a secret is revalidated like
\* any other.
C23_SecretIgnored ==
  \A i, j \in 1..Len(requests) :
    (/\ requests[i].kind = "object"
     /\ requests[j].kind = "object"
     /\ requests[i].path = requests[j].path) =>
       /\ Cardinality(CallsFor(i)) = Cardinality(CallsFor(j))
       /\ \A k \in CallsFor(i), l \in CallsFor(j) : calls[k].path = calls[l].path
       /\ (\A k \in CallsFor(i), l \in CallsFor(j) : calls[k].threw = calls[l].threw) =>
            \A r \in ResponsesTo(i), q \in ResponsesTo(j) :
              /\ responses[r].status = responses[q].status
              /\ responses[r].path = responses[q].path
              /\ responses[r].revalidated = responses[q].revalidated
       /\ (requests[i].secret = Omitted /\ ~Falsy(requests[i].path)) =>
            CallsFor(i) # {}

\* The same path was sent once without a secret and once with one, and
\* both requests were answered 200.
C23_Witness ==
  \E i, j \in 1..Len(requests) :
    /\ requests[i].kind = "object"
    /\ requests[j].kind = "object"
    /\ requests[i].path = requests[j].path
    /\ requests[i].secret = Omitted
    /\ requests[j].secret # Omitted
    /\ \E r \in ResponsesTo(i) : responses[r].status = 200
    /\ \E q \in ResponsesTo(j) : responses[q].status = 200

\* C24 as stated: the sequence a render of /ssr/posts has returned is the
\* only one the query can return for the posts table as it is.
C24_AsStated ==
  (rendered.page = "/ssr/posts" /\ rendered.status = "ok") =>
    \A l \in SSRPostList(posts) : l = rendered.list

\* The number of seed posts with published = 1.
SeedPublished == Cardinality({i \in 1..Len(postData) : postData[i].published = 1})

\* C25: when two seed runs whose statements interleave have both ended, one
\* of them has ended normally, and the tables hold 5 users and 10 posts,
\* each post referencing a user in the table.
C25_ConcurrentSeeds ==
  (\A s \in SeedProcs : pc[s] \in {"done", "failed"}) =>
    /\ \E s \in SeedProcs : pc[s] = "done"
    /\ Cardinality(users) = Len(userData)
    /\ Cardinality(posts) = Len(postData)
    /\ \A p \in posts : ~FkViolation(users, p.userId)

\* Both runs have ended, one of them with exit status 1 after the other had
\* written into it.
C25_Witness ==
  \E s, t \in SeedProcs :
    /\ pc[s] = "done"
    /\ pc[t] = "failed"
    /\ interfered[s]
    /\ interfered[t]

\* C26: the list a render of /ssr/posts obtains while seed runs execute is
\* empty or is the complete set of published posts of one run (the run
\* under way or an earlier one), never a part of a run's posts.
C26_NoPartialSeed ==
  (rendered.page = "/ssr/posts" /\ rendered.status = "ok") =>
    \/ rendered.list = <<>>
    \/ \E s \in SeedProcs :
         /\ Len(rendered.list) = SeedPublished
         /\ \A i \in 1..Len(rendered.list) :
              \E k \in 1..Len(insertedUsers[s]) :
                rendered.list[i].userId = insertedUsers[s][k]

\* /ssr/posts was rendered with an empty list between the statements of a
\* seed run that has cleared the posts an earlier run had inserted.
C26_Witness ==
  \E s, t \in SeedProcs :
    /\ pc[t] = "done"
    /\ pc[s] = "insPosts"
    /\ rendered.page = "/ssr/posts"
    /\ rendered.status = "ok"
    /\ rendered.list = <<>>

\* C27: every step of a build (a SELECT of generateStaticParams or of a page
\* function, or the function's return), of a page request or background
\* render (the SELECT of the page function, its return, an answer from the
\* cache) and of POST /api/revalidate leaves the users and posts tables as
\* they are, whatever its outcome.
C27_ReadsOnly ==
  [][(\/ inflight' # inflight
      \/ served' # served
      \/ cache' # cache
      \/ building' # building
      \/ Len(requests') > Len(requests)) =>
        /\ users' = users
        /\ posts' = posts
        /\ nextUserId' = nextUserId
        /\ nextPostId' = nextPostId]_vars

\* With an unpublished post in the table, its detail page has been rendered
\* after the build and a revalidation request.
C27_Witness ==
  /\ rendered.page \in DetailPages
  /\ rendered.status = "ok"
  /\ \E p \in posts : p.id = rendered.list[1].id /\ p.published = 0
  /\ cache # {}
  /\ requests # <<>>
====
